---- MODULE Spec2Model ----
(***************************************************************************)
(* A model of nanoserver/server.py: the route table of APIServer and the   *)
(* request dispatch of APIRequestHandler (do_GET, do_POST,                 *)
(* _send_json_response, _send_error_response), together with the serve     *)
(* loop of APIServer.run and the KeyboardInterrupt that ends it.           *)
(*                                                                         *)
(* Python values are tagged records, JSON texts are strings rendered the   *)
(* way json.dumps renders them, and what a request puts on the socket is   *)
(* the sequence `wire`.  The lines written to stdout are not modelled.     *)
(***************************************************************************)
EXTENDS Naturals, Sequences, FiniteSets, TLC

VARIABLES
    phase,      \* "setup" | "serving" | "shutdown" | "crashed"
    routes,     \* APIServer.routes: (method, path) -> handler, None if absent
    calls,      \* the add_route calls made so far, in order
    pc,         \* where the request being handled stands
    req,        \* the request the library parsed
    handler,    \* do_GET / do_POST local `handler`
    data,       \* do_POST local `data`
    result,     \* do_GET / do_POST local `result`
    raised,     \* the exception the route's handler raised, None if none
    invoked,    \* the handler invocations of this request: <<handler, data>>
    wire        \* what this request wrote to the socket, in order

vars == <<phase, routes, calls, pc, req, handler, data, result, raised, invoked, wire>>

\* ------------------------------------------------------------------ bounds

\* How many add_route calls a run makes before run().
MaxRegs == 2

\* ---------------------------------------------------------- Python values

None == [t |-> "none"]
PyInt(n) == [t |-> "int", n |-> n]
PyStr(s) == [t |-> "str", s |-> s]
PyList(elems) == [t |-> "list", elems |-> elems]
\* A dict keeps its items in insertion order: a sequence of <<key, value>>.
PyDict(items) == [t |-> "dict", items |-> items]
\* A Python set: an object json.dumps cannot serialize.
PySet == [t |-> "set"]

EmptyDict == PyDict(<<>>)

\* isinstance(v, (dict, list))
IsDictOrList(v) == v.t \in {"dict", "list"}

\* isinstance(v, str)
IsStr(v) == v.t = "str"

Digit(d) == <<"0", "1", "2", "3", "4", "5", "6", "7", "8", "9">>[d + 1]

RECURSIVE IntToStr(_)
IntToStr(n) == IF n < 10 THEN Digit(n) ELSE IntToStr(n \div 10) \o Digit(n % 10)

\* str(v) for the values that reach the last branch of _send_json_response.
StrOf(v) ==
    CASE v.t = "int" -> IntToStr(v.n)
      [] v.t = "none" -> "None"
      [] v.t = "str" -> v.s

\* ------------------------------------------------------------- exceptions

Exc(type, msg) == [type |-> type, msg |-> msg]

NoExc == Exc("", "")

\* issubclass(type, Exception): SystemExit and KeyboardInterrupt derive from
\* BaseException only.
IsException(e) == e.type \notin {"SystemExit", "KeyboardInterrupt"}

\* issubclass(type, json.JSONDecodeError)
IsJSONDecodeError(e) == e.type = "JSONDecodeError"

\* str(exc)
ExcStr(e) == e.msg

\* --------------------------------------------------------------- json.dumps

\* json.dumps(..., indent=None): no indent given.
NoIndent == <<>>

\* json.dumps(data, indent=2)
Indent2 == <<2>>

RECURSIVE Spaces(_)
Spaces(n) == IF n = 0 THEN "" ELSE " " \o Spaces(n - 1)

\* The line break json.dumps puts before an item at nesting depth `level`.
NewlineIndent(indent, level) ==
    IF indent = NoIndent THEN "" ELSE "\n" \o Spaces(indent[1] * level)

ItemSeparator(indent, level) ==
    IF indent = NoIndent THEN ", " ELSE "," \o NewlineIndent(indent, level)

RECURSIVE Serializable(_)
Serializable(v) ==
    CASE v.t = "set" -> FALSE
      [] v.t = "list" -> \A i \in 1..Len(v.elems) : Serializable(v.elems[i])
      [] v.t = "dict" -> \A i \in 1..Len(v.items) : Serializable(v.items[i][2])
      [] OTHER -> TRUE

RECURSIVE Encode(_, _, _)
RECURSIVE EncodeElems(_, _, _, _)
RECURSIVE EncodeItems(_, _, _, _)

EncodeElems(elems, i, indent, level) ==
    IF i > Len(elems) THEN ""
    ELSE (IF i = 1 THEN "" ELSE ItemSeparator(indent, level))
         \o Encode(elems[i], indent, level)
         \o EncodeElems(elems, i + 1, indent, level)

EncodeItems(items, i, indent, level) ==
    IF i > Len(items) THEN ""
    ELSE (IF i = 1 THEN "" ELSE ItemSeparator(indent, level))
         \o "\"" \o items[i][1] \o "\": "
         \o Encode(items[i][2], indent, level)
         \o EncodeItems(items, i + 1, indent, level)

\* The text of a serializable value; strings of the model need no escaping.
Encode(v, indent, level) ==
    CASE v.t = "none" -> "null"
      [] v.t = "int" -> IntToStr(v.n)
      [] v.t = "str" -> "\"" \o v.s \o "\""
      [] v.t = "list" ->
            IF v.elems = <<>> THEN "[]"
            ELSE "[" \o NewlineIndent(indent, level + 1)
                 \o EncodeElems(v.elems, 1, indent, level + 1)
                 \o NewlineIndent(indent, level) \o "]"
      [] v.t = "dict" ->
            IF v.items = <<>> THEN "{}"
            ELSE "{" \o NewlineIndent(indent, level + 1)
                 \o EncodeItems(v.items, 1, indent, level + 1)
                 \o NewlineIndent(indent, level) \o "}"

\* json.dumps(v, indent=indent): the text, or the TypeError it raises.
JsonDumps(v, indent) ==
    IF Serializable(v)
    THEN [ok |-> TRUE, text |-> Encode(v, indent, 0), exc |-> NoExc]
    ELSE [ok |-> FALSE, text |-> "",
          exc |-> Exc("TypeError", "Object of type set is not JSON serializable")]

\* ------------------------------------------------------- the request body

\* The bytes a client sent: their text when they are valid UTF-8.
Bytes(raw, utf8, len) == [raw |-> raw, utf8 |-> utf8, len |-> len]

NoBytes == Bytes("", TRUE, 0)

Bodies ==
    { NoBytes,
      Bytes("{\"a\":1}", TRUE, 7),
      Bytes("{}", TRUE, 2),
      Bytes("{bad", TRUE, 4),
      Bytes("\\xff", FALSE, 1) }

\* post_data.decode("utf-8")
Utf8Decode(b) ==
    IF b.utf8
    THEN [ok |-> TRUE, text |-> b.raw, exc |-> NoExc]
    ELSE [ok |-> FALSE, text |-> "",
          exc |-> Exc("UnicodeDecodeError",
                      "'utf-8' codec can't decode byte 0xff in position 0: invalid start byte")]

\* json.loads(text) on the texts a request of the model can carry.
JsonLoads(text) ==
    CASE text = "{\"a\":1}" ->
            [ok |-> TRUE, value |-> PyDict(<< <<"a", PyInt(1)>> >>), exc |-> NoExc]
      [] text = "{}" -> [ok |-> TRUE, value |-> EmptyDict, exc |-> NoExc]
      [] text = "{bad" ->
            [ok |-> FALSE, value |-> None,
             exc |-> Exc("JSONDecodeError",
                         "Expecting property name enclosed in double quotes: line 1 column 2 (char 1)")]
      [] OTHER ->
            [ok |-> FALSE, value |-> None,
             exc |-> Exc("JSONDecodeError", "Expecting value: line 1 column 1 (char 0)")]

\* int(x) of a header's text: a decimal digit string, or a ValueError.
ParseInt(text) ==
    IF \E n \in 0..9 : Digit(n) = text
    THEN [ok |-> TRUE, n |-> CHOOSE n \in 0..9 : Digit(n) = text, exc |-> NoExc]
    ELSE [ok |-> FALSE, n |-> 0,
          exc |-> Exc("ValueError",
                      "invalid literal for int() with base 10: '" \o text \o "'")]

\* self.headers.get("Content-Length", 0) followed by int(...): the header is
\* <<>> when absent and <<text>> when present.
ContentLength(cl) ==
    IF cl = <<>> THEN [ok |-> TRUE, n |-> 0, exc |-> NoExc] ELSE ParseInt(cl[1])

\* self.rfile.read(n) where n is 0 or the length of the body sent.
Read(body, n) == IF n = 0 THEN NoBytes ELSE body

\* Lines 72-74 of do_POST: the decoded data, or the exception raised.
DecodeBody(cl, body) ==
    LET len == ContentLength(cl) IN
    IF ~len.ok THEN [ok |-> FALSE, value |-> None, exc |-> len.exc]
    ELSE LET post_data == Read(body, len.n) IN
         IF post_data.len = 0 THEN [ok |-> TRUE, value |-> EmptyDict, exc |-> NoExc]
         ELSE LET text == Utf8Decode(post_data) IN
              IF ~text.ok THEN [ok |-> FALSE, value |-> None, exc |-> text.exc]
              ELSE JsonLoads(text.text)

\* ------------------------------------------------------------- the routes

Handlers == {"A", "B"}

\* routes.get(key) of a key the dict does not hold.
NoHandler == "None"

\* The method strings add_route is called with, and those of requests.
RegMethods == {"GET", "get", "POST"}
ReqMethods == {"GET", "POST"}

RegPaths == {"/x"}
ReqPaths == {"/x", "/X", "/x/", "/x?q=1"}

RouteKeys == (RegMethods \cup ReqMethods) \X (RegPaths \cup ReqPaths)

\* str.upper()
Upper(s) ==
    CASE s = "get" -> "GET"
      [] s = "post" -> "POST"
      [] OTHER -> s

\* A key that keeps the method as given.
RouteKeyRaw(method, path) == <<method, path>>

\* The key add_route stores a handler under.
RouteKey(method, path) == <<Upper(method), path>>

\* The path without its query string.
StripQuery(path) == IF path = "/x?q=1" THEN "/x" ELSE path

\* A lookup that drops the query string first.
LookupNoQuery(table, method, path) == table[<<method, StripQuery(path)>>]

\* self.routes.get((method, self.path))
Lookup(table, method, path) == table[<<method, path>>]

\* ------------------------------------------------------------ the socket

StatusLine(code) == [k |-> "status", code |-> code, text |-> ""]
ContentTypeHeader == [k |-> "header", code |-> 0, text |-> "Content-type: application/json"]
Body(text) == [k |-> "body", code |-> 0, text |-> text]

ErrorEnvelope(message) == PyDict(<< <<"error", PyStr(message)>> >>)

\* _send_error_response(status, message): what it writes.
SendErrorResponse(status, message) ==
    << StatusLine(status), ContentTypeHeader,
       Body(JsonDumps(ErrorEnvelope(message), NoIndent).text) >>

\* The tagging without its isinstance(data, str) branch.
ResponseTextNoStr(d) ==
    IF IsDictOrList(d) THEN JsonDumps(d, Indent2)
    ELSE JsonDumps(PyDict(<< <<"result", PyStr(StrOf(d))>> >>), NoIndent)

\* The tagging with indent=2 in every branch.
ResponseTextAllIndented(d) ==
    IF IsDictOrList(d) THEN JsonDumps(d, Indent2)
    ELSE IF IsStr(d) THEN JsonDumps(PyDict(<< <<"message", d>> >>), Indent2)
    ELSE JsonDumps(PyDict(<< <<"result", PyStr(StrOf(d))>> >>), Indent2)

\* Lines 97-102 of _send_json_response: the response text, or the exception
\* json.dumps raises.
ResponseText(d) ==
    IF IsDictOrList(d) THEN JsonDumps(d, Indent2)
    ELSE IF IsStr(d) THEN JsonDumps(PyDict(<< <<"message", d>> >>), NoIndent)
    ELSE JsonDumps(PyDict(<< <<"result", PyStr(StrOf(d))>> >>), NoIndent)

\* The except clauses of do_GET (lines 51-52): what an exception raised in
\* its try block leads to.
do_GET_except(e) ==
    IF IsException(e)
    THEN [caught |-> TRUE, status |-> 500, message |-> ExcStr(e)]
    ELSE [caught |-> FALSE, status |-> 0, message |-> ""]

\* The except clauses of do_POST (lines 79-83), tried in order.
do_POST_except(e) ==
    IF IsJSONDecodeError(e)
    THEN [caught |-> TRUE, status |-> 400, message |-> "Invalid JSON: " \o ExcStr(e)]
    ELSE IF IsException(e)
    THEN [caught |-> TRUE, status |-> 500, message |-> ExcStr(e)]
    ELSE [caught |-> FALSE, status |-> 0, message |-> ""]

Except(method, e) == IF method = "GET" THEN do_GET_except(e) ELSE do_POST_except(e)

\* ------------------------------------------------------------ the handlers

\* What a route's handler may do when called: return one of these values
\* (a POST handler may also return its data), or raise one of these.
ReturnValues ==
    { PyStr("Hello!"),
      PyDict(<< <<"a", PyInt(1)>> >>),
      PyList(<< PyInt(1), PyInt(2) >>),
      PyInt(7),
      None,
      PyDict(<< <<"k", PySet>> >>) }

RaisedExceptions ==
    { Exc("RuntimeError", "boom"),
      Exc("JSONDecodeError", "Expecting value: line 1 column 1 (char 0)"),
      Exc("SystemExit", "") }

NoRequest == [method |-> "", path |-> "", cl |-> <<>>, body |-> NoBytes]

\* The requests a client may send: a GET carries no body; a POST's
\* Content-Length is absent, "0", the length of its body, or not a number.
Requests ==
    { [method |-> "GET", path |-> p, cl |-> <<>>, body |-> NoBytes] : p \in ReqPaths }
    \cup
    { [method |-> "POST", path |-> p, cl |-> c, body |-> b] :
        p \in ReqPaths, b \in {NoBytes, Bytes("{\"a\":1}", TRUE, 7)},
        c \in {<<>>, <<"0">>, <<"abc">>} }
    \cup
    { [method |-> "POST", path |-> p, cl |-> <<IntToStr(b.len)>>, body |-> b] :
        p \in ReqPaths, b \in Bodies }

InFlight == {"dispatch", "decode", "invoke", "headers", "body"}

\* ---------------------------------------------------------------- actions

Init ==
    /\ phase = "setup"
    /\ routes = [k \in RouteKeys |-> NoHandler]
    /\ calls = <<>>
    /\ pc = "idle"
    /\ req = NoRequest
    /\ handler = NoHandler
    /\ data = None
    /\ result = None
    /\ raised = NoExc
    /\ invoked = <<>>
    /\ wire = <<>>

request_vars == <<pc, req, handler, data, result, raised, invoked, wire>>

\* APIServer.add_route(method, path, handler)
add_route(method, path, h) ==
    /\ phase = "setup"
    /\ Len(calls) < MaxRegs
    /\ routes' = [routes EXCEPT ![RouteKey(method, path)] = h]
    /\ calls' = Append(calls, <<method, path, h>>)
    /\ UNCHANGED <<phase, request_vars>>

\* APIServer.run() up to httpd.serve_forever(): the handler class shares the
\* routes dict.
run ==
    /\ phase = "setup"
    /\ phase' = "serving"
    /\ UNCHANGED <<routes, calls, request_vars>>

\* serve_forever accepts a connection and parses the next request; requests
\* are handled one at a time.
Accept(r) ==
    /\ phase = "serving"
    /\ pc \in {"idle", "done"}
    /\ req' = r
    /\ pc' = "dispatch"
    /\ handler' = NoHandler
    /\ data' = None
    /\ result' = None
    /\ raised' = NoExc
    /\ invoked' = <<>>
    /\ wire' = <<>>
    /\ UNCHANGED <<phase, routes, calls>>

\* do_GET, lines 44-47 and 53-54: the lookup and the 404.
do_GET_lookup ==
    /\ pc = "dispatch"
    /\ req.method = "GET"
    /\ LET h == Lookup(routes, "GET", req.path) IN
       /\ handler' = h
       /\ IF h # NoHandler
          THEN /\ pc' = "invoke"
               /\ wire' = wire
          ELSE /\ pc' = "done"
               /\ wire' = wire \o SendErrorResponse(404, "Endpoint not found")
    /\ UNCHANGED <<phase, routes, calls, req, data, result, raised, invoked>>

\* do_POST, lines 64-69: the lookup and the 404.
do_POST_lookup ==
    /\ pc = "dispatch"
    /\ req.method = "POST"
    /\ LET h == Lookup(routes, "POST", req.path) IN
       /\ handler' = h
       /\ IF h # NoHandler
          THEN /\ pc' = "decode"
               /\ wire' = wire
          ELSE /\ pc' = "done"
               /\ wire' = wire \o SendErrorResponse(404, "Endpoint not found")
    /\ UNCHANGED <<phase, routes, calls, req, data, result, raised, invoked>>

\* An exception e raised inside the try block of do_GET / do_POST: an except
\* clause answers it, or it leaves the method and serve_forever with it (run
\* catches KeyboardInterrupt only).
Raise(e) ==
    LET c == Except(req.method, e) IN
    IF c.caught
    THEN /\ wire' = wire \o SendErrorResponse(c.status, c.message)
         /\ pc' = "done"
         /\ phase' = phase
    ELSE /\ wire' = wire
         /\ pc' = "aborted"
         /\ phase' = "crashed"

\* do_POST, lines 72-74: Content-Length, the body, its decoding.
do_POST_decode ==
    /\ pc = "decode"
    /\ LET d == DecodeBody(req.cl, req.body) IN
       IF d.ok
       THEN /\ data' = d.value
            /\ pc' = "invoke"
            /\ UNCHANGED <<phase, wire>>
       ELSE /\ data' = data
            /\ Raise(d.exc)
    /\ UNCHANGED <<routes, calls, req, handler, result, raised, invoked>>

\* The arguments after `self` the handler is called with.
HandlerArgs == IF req.method = "GET" THEN <<>> ELSE <<data>>

\* Lines 49 / 76: the handler is called and returns v.
InvokeReturns(v) ==
    /\ pc = "invoke"
    /\ invoked' = Append(invoked, [h |-> handler, args |-> HandlerArgs])
    /\ result' = v
    /\ pc' = "headers"
    /\ UNCHANGED <<phase, routes, calls, req, handler, data, raised, wire>>

\* Lines 49 / 76: the handler is called and raises e.
InvokeRaises(e) ==
    /\ pc = "invoke"
    /\ invoked' = Append(invoked, [h |-> handler, args |-> HandlerArgs])
    /\ raised' = e
    /\ Raise(e)
    /\ UNCHANGED <<routes, calls, req, handler, data, result>>

\* _send_json_response, lines 93-95: end_headers puts the status line and
\* the header on the socket.
send_json_headers ==
    /\ pc = "headers"
    /\ wire' = wire \o <<StatusLine(200), ContentTypeHeader>>
    /\ pc' = "body"
    /\ UNCHANGED <<phase, routes, calls, req, handler, data, result, raised, invoked>>

\* _send_json_response, lines 97-104: the body, or the exception json.dumps
\* raises into the caller's try block.
send_json_body ==
    /\ pc = "body"
    /\ LET r == ResponseText(result) IN
       IF r.ok
       THEN /\ wire' = Append(wire, Body(r.text))
            /\ pc' = "done"
            /\ phase' = phase
       ELSE Raise(r.exc)
    /\ UNCHANGED <<routes, calls, req, handler, data, result, raised, invoked>>

\* Ctrl+C while serve_forever runs: KeyboardInterrupt is raised in the one
\* thread, wherever it stands.  No except clause of do_GET / do_POST catches
\* it, so a request in flight is abandoned; run (lines 193-195) catches it.
KeyboardInterrupt ==
    /\ phase = "serving"
    /\ phase' = "shutdown"
    /\ pc' = IF pc \in InFlight THEN "aborted" ELSE pc
    /\ UNCHANGED <<routes, calls, req, handler, data, result, raised, invoked, wire>>

Next ==
    \/ \E m \in RegMethods, p \in RegPaths, h \in Handlers : add_route(m, p, h)
    \/ run
    \/ \E r \in Requests : Accept(r)
    \/ do_GET_lookup
    \/ do_POST_lookup
    \/ do_POST_decode
    \/ \E v \in ReturnValues \cup {data} : InvokeReturns(v)
    \/ \E e \in RaisedExceptions : InvokeRaises(e)
    \/ send_json_headers
    \/ send_json_body
    \/ KeyboardInterrupt

Spec == Init /\ [][Next]_vars

\* ------------------------------------------------------------- properties

\* The status codes this request put on the socket, in order.
Statuses ==
    LET lines == SelectSeq(wire, LAMBDA w : w.k = "status") IN
    [i \in 1..Len(lines) |-> lines[i].code]

\* The kinds of the items this request put on the socket, in order.
WireKinds == [i \in 1..Len(wire) |-> wire[i].k]

OneResponse == WireKinds = <<"status", "header", "body">>

\* The handler of the most recent add_route call for a key, methods compared
\* in upper case; NoHandler when there was none.
LastRegistered(key) ==
    LET idx == {i \in 1..Len(calls) : <<Upper(calls[i][1]), calls[i][2]>> = key} IN
    IF idx = {} THEN NoHandler
    ELSE calls[CHOOSE i \in idx : \A j \in idx : j <= i][3]

ReqKey == <<req.method, req.path>>

\* The handler was called and returned.
HandlerReturned == invoked # <<>> /\ raised = NoExc /\ pc \in {"headers", "body", "done"}

\* The Response Envelope of section 3 for a return value.
Envelope(v) ==
    IF v.t \in {"dict", "list"} THEN v
    ELSE IF v.t = "str" THEN PyDict(<< <<"message", v>> >>)
    ELSE PyDict(<< <<"result", PyStr(StrOf(v))>> >>)

\* The one error response with a status and a message.
ErrorResponse(status, message) ==
    << StatusLine(status), ContentTypeHeader,
       Body(Encode(ErrorEnvelope(message), NoIndent, 0)) >>

\* C1: if a handler raises an exception (a subclass of Exception) during a
\* GET or POST request, the one response has status 500 and its error field
\* is the exception's message text, and the server is still serving when the
\* request is done.
C1_HandlerRaiseIs500 ==
    (raised # NoExc /\ IsException(raised))
        => /\ pc = "done"
           /\ wire = ErrorResponse(500, raised.msg)
           /\ phase # "crashed"

\* The non-empty body of the request fails to decode: it is not valid UTF-8,
\* or its text is not JSON.
BodyUndecodable ==
    /\ req.body.len > 0
    /\ req.cl = <<IntToStr(req.body.len)>>
    /\ \/ ~req.body.utf8
       \/ req.body.raw \notin {"{\"a\":1}", "{}"}

\* The messages an undecodable body of the model can lead to.
DecodeErrorTexts ==
    { "'utf-8' codec can't decode byte 0xff in position 0: invalid start byte",
      "Expecting property name enclosed in double quotes: line 1 column 2 (char 1)",
      "Expecting value: line 1 column 1 (char 0)" }

\* C2: a POST to a registered route whose non-empty body fails to decode
\* (invalid UTF-8 or malformed JSON) is answered with status 400 and an error
\* starting with "Invalid JSON:", and the handler is not invoked.
C2_DecodeFailureIs400 ==
    (pc = "done" /\ req.method = "POST" /\ handler # NoHandler /\ BodyUndecodable)
        => /\ invoked = <<>>
           /\ \E t \in DecodeErrorTexts : wire = ErrorResponse(400, "Invalid JSON: " \o t)

\* C3: a request that is done has written exactly one response: one status
\* line, one Content-type header, one body, and nothing else.
C3_ExactlyOneResponse == pc = "done" => OneResponse

C5_UnregisteredIs404 ==
    (pc # "idle" /\ LastRegistered(ReqKey) = NoHandler)
        => /\ invoked = <<>>
           /\ pc \in {"dispatch", "done", "aborted"}
           /\ pc = "done" =>
                wire = << StatusLine(404), ContentTypeHeader,
                          Body("{\"error\": \"Endpoint not found\"}") >>
           /\ pc # "done" => wire = <<>>

\* C5's case: GET /x is registered and a GET of /x?q=1 got the 404.
C5_Witness ==
    /\ pc = "done"
    /\ req.method = "GET"
    /\ req.path = "/x?q=1"
    /\ routes[<<"GET", "/x">>] # NoHandler
    /\ Statuses = <<404>>
    /\ invoked = <<>>

\* C6: the route table holds, for every key, the handler of the most recent
\* add_route call for that (uppercased method, path), and a request invokes
\* that handler only.
C6_LastRegistrationWins ==
    /\ \A k \in RouteKeys : routes[k] = LastRegistered(k)
    /\ \A i \in 1..Len(invoked) : invoked[i].h = LastRegistered(ReqKey)
    /\ Len(invoked) <= 1

\* C6's case: GET /x was registered with A, then (as "get") with B, and a
\* GET of /x invoked B.
C6_Witness ==
    /\ calls = << <<"GET", "/x", "A">>, <<"get", "/x", "B">> >>
    /\ req.method = "GET"
    /\ req.path = "/x"
    /\ invoked = << [h |-> "B", args |-> <<>>] >>

\* C7 as stated: every status 200 body is the 2-space-indented JSON text of
\* the envelope, whatever the shape of the handler's return value.
C7_EverySuccessBodyIndented ==
    (pc = "done" /\ Statuses = <<200>>)
        => wire[3].text = Encode(Envelope(result), Indent2, 0)

\* The messages of the model's error responses.
ErrorTexts ==
    {"Endpoint not found", "boom", "invalid literal for int() with base 10: 'abc'",
     "Object of type set is not JSON serializable"}
    \cup DecodeErrorTexts
    \cup {"Invalid JSON: " \o t : t \in DecodeErrorTexts}

\* C7 amended: a status 200 body is 2-space-indented only when the handler
\* returned a dict or list; a string or any other value is wrapped in a
\* one-key object serialized compactly, on one line, as every error body is.
C7_IndentOnlyDictOrList ==
    pc = "done" =>
        /\ Statuses = <<200>> =>
               /\ wire[3].text =
                      IF IsDictOrList(result)
                      THEN Encode(result, Indent2, 0)
                      ELSE Encode(Envelope(result), NoIndent, 0)
               /\ result = PyStr("Hello!") => wire[3].text = "{\"message\": \"Hello!\"}"
               /\ result = PyDict(<< <<"a", PyInt(1)>> >>) =>
                      wire[3].text = "{\n  \"a\": 1\n}"
               /\ result = PyList(<< PyInt(1), PyInt(2) >>) =>
                      wire[3].text = "[\n  1,\n  2\n]"
               /\ result = EmptyDict => wire[3].text = "{}"
        /\ Statuses[Len(Statuses)] # 200 =>
               \E m \in ErrorTexts :
                   wire[Len(wire)].text = Encode(ErrorEnvelope(m), NoIndent, 0)

\* C7's case: a GET handler returned "Hello!" and the body is the one-line
\* {"message": "Hello!"}.
C7_Witness ==
    /\ pc = "done"
    /\ req.method = "GET"
    /\ result = PyStr("Hello!")
    /\ wire = <<StatusLine(200), ContentTypeHeader, Body("{\"message\": \"Hello!\"}")>>

\* C8: once the interrupt has stopped the server, the request that was in
\* flight with its route's handler found has completed: the handler was
\* called and the response is written.
C8_InFlightCompletes ==
    (phase = "shutdown" /\ handler # NoHandler)
        => (pc = "done" /\ invoked # <<>> /\ wire # <<>>)

\* C9: a POST to a registered route with Content-Length 0 or without the
\* header invokes the handler exactly once with {} and produces no 400.
C9_EmptyBodyIsEmptyDict ==
    (pc = "done" /\ req.method = "POST" /\ handler # NoHandler
        /\ req.cl \in {<<>>, <<"0">>})
        => /\ Len(invoked) = 1
           /\ invoked[1].args = <<EmptyDict>>
           /\ \A i \in 1..Len(Statuses) : Statuses[i] # 400

\* C10: a status 500 is written only if the handler was invoked and raised.
C10_Only500FromHandler ==
    (\E i \in 1..Len(Statuses) : Statuses[i] = 500)
        => (invoked # <<>> /\ raised # NoExc)

====
